---------------------------- MODULE Spec2Model ----------------------------
(***************************************************************************)
(* arm64 alternative runtime patching (arch/arm64/kernel/alternative.c).   *)
(*                                                                         *)
(* The image is a map from instruction-slot addresses to instruction       *)
(* words, the patch-site table is an array of struct alt_instr holding     *)
(* self-relative offsets, and the cores run the stop_machine callback      *)
(* __apply_alternatives_multi_stop one step at a time.                     *)
(***************************************************************************)
EXTENDS Integers, Sequences, FiniteSets, TLC

VARIABLES
    alt_instructions, \* the table of struct alt_instr, in table order
    caps,             \* the detected capability set (cpus_have_cap)
    mem,              \* instruction word at every modelled slot address
    patched,          \* static int patched of __apply_alternatives_multi_stop
    mode,             \* entry point in progress: "none", "all", "region"
    pc,               \* each core's position in the stop_machine callback
    region,           \* struct alt_region of the running __apply_alternatives
    use_linear_alias, \* second argument of the running __apply_alternatives
    alt,              \* loop variable alt (address of the current entry)
    i,                \* loop variable i (instruction slot in the site)
    apc,              \* position inside __apply_alternatives
    bug,              \* which BUG()/BUG_ON() fired, "none" while running
    log,              \* stores and flushes issued by the current call
    pre,              \* mem as it was when the current call started
    calls,            \* number of entry-point invocations so far
    allCalls,         \* number of apply_alternatives_all() invocations so far
    passesDone        \* whole-image passes whose loop ran to its end

vars == <<alt_instructions, caps, mem, patched, mode, pc, region,
          use_linear_alias, alt, i, apc, bug, log, pre, calls, allCalls,
          passesDone>>

-----------------------------------------------------------------------------
(* Bounds of the model *)

\* Number of cores taking part in stop_machine (core ids 0 .. NCores-1).
NCores == 3

\* Number of entry-point invocations explored in one behaviour.
MaxCalls == 2

Cores == 0 .. (NCores - 1)

-----------------------------------------------------------------------------
(* Program constants *)

SZ_4K == 4096

\* sizeof(u32): one instruction slot
INSN_SIZE == 4

\* sizeof(struct alt_instr): s32, s32, u16, u8, u8
ALT_INSTR_SIZE == 12

\* offsetof(struct alt_instr, alt_offset)
ALT_OFFSET_FIELD == 4

\* Distance between a kernel-image address and its linear-map alias.
LINEAR_ALIAS_DELTA == 65536

-----------------------------------------------------------------------------
(* Image layout explored by Init *)

\* __alt_instructions: address of the first table entry
ALT_TABLE_BASE == 8000

\* [_stext, _etext) and [_sdata, _edata)
TextRange == [lo |-> 4096, hi |-> 4160]
DataRange == [lo |-> 12288, hi |-> 12352]

OrigSlots == {4096, 4100, 4104, 4108}
ReplSlots == {4128, 4132, 8192, 8196, 8200, 8204}
Slots     == OrigSlots \cup ReplSlots

Capabilities == {0, 1}

-----------------------------------------------------------------------------
(* Instruction codec (asm/insn.h): an instruction word is its kind, the    *)
(* immediate field as encoded, and the remaining bits.                     *)

Insn(kind, imm, rest) == [kind |-> kind, imm |-> imm, rest |-> rest]

aarch64_insn_is_branch_imm(insn) == insn.kind = "b"
aarch64_insn_is_adrp(insn)       == insn.kind = "adrp"
aarch64_insn_is_adr(insn)        == insn.kind = "adr"
aarch64_insn_uses_literal(insn)  == insn.kind \in {"b", "adrp", "adr", "ldr_lit"}

\* The branch immediate counts instructions, the adrp immediate pages,
\* the adr immediate bytes.
aarch64_get_branch_offset(insn)          == insn.imm * INSN_SIZE
aarch64_set_branch_offset(insn, offset)  == [insn EXCEPT !.imm = offset \div INSN_SIZE]
aarch64_insn_adrp_get_offset(insn)       == insn.imm * SZ_4K
aarch64_insn_adrp_set_offset(insn, offset) == [insn EXCEPT !.imm = offset \div SZ_4K]
aarch64_insn_adr_get_offset(insn)        == insn.imm

-----------------------------------------------------------------------------
(* Collaborators *)

kernel_text_address(addr) == addr >= TextRange.lo /\ addr < TextRange.hi
core_kernel_data(addr)    == addr >= DataRange.lo /\ addr < DataRange.hi
cpus_have_cap(num)        == num \in caps

lm_alias(addr) == addr + LINEAR_ALIAS_DELTA

\* The slot a store to virtual address addr lands in.
SlotOf(addr) == IF addr >= LINEAR_ALIAS_DELTA THEN addr - LINEAR_ALIAS_DELTA ELSE addr

-----------------------------------------------------------------------------
(* The table *)

__alt_instructions     == ALT_TABLE_BASE
__alt_instructions_end == ALT_TABLE_BASE + Len(alt_instructions) * ALT_INSTR_SIZE

\* The struct alt_instr stored at address a.
EntryAt(a) == alt_instructions[((a - ALT_TABLE_BASE) \div ALT_INSTR_SIZE) + 1]

EntryAddr(k) == ALT_TABLE_BASE + (k - 1) * ALT_INSTR_SIZE

\* __ALT_PTR(a, f): address of field f plus the offset stored in it
ALT_ORIG_PTR(a) == a + EntryAt(a).orig_offset
ALT_REPL_PTR(a) == (a + ALT_OFFSET_FIELD) + EntryAt(a).alt_offset

align_down(x, a) == x - (x % a)


-----------------------------------------------------------------------------
(* Instruction Relocator *)

\* Variant of address_needs_relocation_fixup: the final BUG() is lost and
\* the function returns 0.
address_needs_relocation_fixup_NoBug(a, addr) ==
    IF kernel_text_address(addr) \/ core_kernel_data(addr)
    THEN [bug |-> FALSE, ret |-> 1]
    ELSE [bug |-> FALSE, ret |-> 0]

\* address_needs_relocation_fixup(alt, addr): ret is the value returned,
\* bug is TRUE when the function reaches BUG() instead of returning.
address_needs_relocation_fixup(a, addr) ==
    LET replptr == ALT_REPL_PTR(a) IN
    IF kernel_text_address(addr) \/ core_kernel_data(addr)
    THEN [bug |-> FALSE, ret |-> 1]
    ELSE IF addr >= replptr /\ addr <= (replptr + EntryAt(a).alt_len)
         THEN [bug |-> FALSE, ret |-> 0]
         ELSE [bug |-> TRUE, ret |-> 0]

\* Variant of get_alt_insn_branch: the new offset is taken from the
\* replacement address instead of the final address.
get_alt_insn_branch_WrongBase(a, insn, insnptr, altinsnptr) ==
    LET offset == aarch64_get_branch_offset(insn)
        target == altinsnptr + offset
        fix    == address_needs_relocation_fixup(a, target)
    IN  IF fix.bug THEN [bug |-> "fixup", insn |-> insn]
        ELSE IF fix.ret # 0
             THEN [bug |-> "none",
                   insn |-> aarch64_set_branch_offset(insn, target - altinsnptr)]
             ELSE [bug |-> "none", insn |-> insn]

\* Lines 73-87: the relative-branch case of get_alt_insn.  insn is the word
\* returned, bug names the BUG() reached ("none" when the function returns).
get_alt_insn_branch(a, insn, insnptr, altinsnptr) ==
    LET offset == aarch64_get_branch_offset(insn)
        target == altinsnptr + offset
        fix    == address_needs_relocation_fixup(a, target)
    IN  IF fix.bug THEN [bug |-> "fixup", insn |-> insn]
        ELSE IF fix.ret # 0
             THEN [bug |-> "none",
                   insn |-> aarch64_set_branch_offset(insn, target - insnptr)]
             ELSE [bug |-> "none", insn |-> insn]

\* Variant of get_alt_insn_adrp: the new offset is taken from the page of
\* the replacement address instead of the page of the final address.
get_alt_insn_adrp_WrongBase(a, insn, insnptr, altinsnptr) ==
    LET orig_offset == aarch64_insn_adrp_get_offset(insn)
        target      == align_down(altinsnptr, SZ_4K) + orig_offset
        fix         == address_needs_relocation_fixup(a, target)
    IN  IF fix.bug THEN [bug |-> "fixup", insn |-> insn]
        ELSE IF fix.ret # 0
             THEN [bug |-> "none",
                   insn |-> aarch64_insn_adrp_set_offset(
                                insn, target - align_down(altinsnptr, SZ_4K))]
             ELSE [bug |-> "none", insn |-> insn]

\* Lines 88-104: the adrp case.
get_alt_insn_adrp(a, insn, insnptr, altinsnptr) ==
    LET orig_offset == aarch64_insn_adrp_get_offset(insn)
        target      == align_down(altinsnptr, SZ_4K) + orig_offset
        fix         == address_needs_relocation_fixup(a, target)
    IN  IF fix.bug THEN [bug |-> "fixup", insn |-> insn]
        ELSE IF fix.ret # 0
             THEN [bug |-> "none",
                   insn |-> aarch64_insn_adrp_set_offset(
                                insn, target - align_down(insnptr, SZ_4K))]
             ELSE [bug |-> "none", insn |-> insn]

\* Variant of get_alt_insn_adr: the BUG() of line 116 is lost.
get_alt_insn_adr_NoBug(a, insn, insnptr, altinsnptr) ==
    LET offset == aarch64_insn_adr_get_offset(insn)
        target == altinsnptr + offset
        fix    == address_needs_relocation_fixup(a, target)
    IN  IF fix.bug THEN [bug |-> "fixup", insn |-> insn]
        ELSE [bug |-> "none", insn |-> insn]

\* Lines 105-117: the adr case.
get_alt_insn_adr(a, insn, insnptr, altinsnptr) ==
    LET offset == aarch64_insn_adr_get_offset(insn)
        target == altinsnptr + offset
        fix    == address_needs_relocation_fixup(a, target)
    IN  IF fix.bug THEN [bug |-> "fixup", insn |-> insn]
        ELSE IF fix.ret # 0
             THEN [bug |-> "adr", insn |-> insn]
             ELSE [bug |-> "none", insn |-> insn]

\* get_alt_insn(alt, insnptr, altinsnptr)
get_alt_insn(a, insnptr, altinsnptr) ==
    LET insn == mem[altinsnptr] IN
    IF aarch64_insn_is_branch_imm(insn)
    THEN get_alt_insn_branch(a, insn, insnptr, altinsnptr)
    ELSE IF aarch64_insn_is_adrp(insn)
    THEN get_alt_insn_adrp(a, insn, insnptr, altinsnptr)
    ELSE IF aarch64_insn_is_adr(insn)
    THEN get_alt_insn_adr(a, insn, insnptr, altinsnptr)
    ELSE IF aarch64_insn_uses_literal(insn)
    THEN [bug |-> "literal", insn |-> insn]
    ELSE [bug |-> "none", insn |-> insn]

-----------------------------------------------------------------------------
(* Inputs explored by Init: the linker-produced table, the capability set  *)
(* and the contents of the replacement blocks.                             *)

\* Absolute placement of the first and of the second site of the table.
Site1Choices ==
    { [orig |-> 4096, repl |-> r, orig_len |-> 8, alt_len |-> l, cpufeature |-> f] :
        r \in {8192, 4128}, l \in {4, 8}, f \in Capabilities }
Site2Choices ==
    { [orig |-> o, repl |-> 8200, orig_len |-> 4, alt_len |-> l, cpufeature |-> f] :
        o \in {4096, 4104}, l \in {4, 8}, f \in Capabilities }

\* The struct alt_instr the linker emits at table index k for a placement.
MkEntry(k, s) ==
    [orig_offset |-> s.orig - EntryAddr(k),
     alt_offset  |-> s.repl - (EntryAddr(k) + ALT_OFFSET_FIELD),
     cpufeature  |-> s.cpufeature,
     orig_len    |-> s.orig_len,
     alt_len     |-> s.alt_len]

TableChoices ==
    { <<MkEntry(1, s1)>> : s1 \in Site1Choices } \cup
    { <<MkEntry(1, s1), MkEntry(2, s2)>> : s1 \in Site1Choices, s2 \in Site2Choices }

CapsChoices == { {0}, {0, 1} }

BranchTargets == {4112, 4128, 4132, 8192, 8196, 8200, 8224, 12288}
AdrTargets    == {4112, 4130, 8192, 8199, 8200, 8201, 12288}
AdrpTargets   == {4096, 8192, 12288, 16384}

\* The position-dependent instructions an assembler can leave at address a.
InsnChoices(a) ==
    { Insn("b", (t - a) \div INSN_SIZE, a) : t \in BranchTargets } \cup
    { Insn("adr", t - a, a) : t \in AdrTargets } \cup
    { Insn("adrp", (t - align_down(a, SZ_4K)) \div SZ_4K, a) : t \in AdrpTargets } \cup
    { Insn("ldr_lit", 0, a), Insn("other", 0, a) }

\* Every slot holds a position-independent instruction of its own.
PlainImage == [a \in Slots |-> Insn("other", 0, a)]

NoRegion == [begin |-> 0, end |-> 0]

Init ==
    /\ alt_instructions \in TableChoices
    /\ caps \in CapsChoices
    /\ \E j \in {0, 1} :
         LET a == ALT_REPL_PTR(EntryAddr(1)) + j * INSN_SIZE IN
         \E w \in InsnChoices(a) : mem = [PlainImage EXCEPT ![a] = w]
    /\ patched = 0
    /\ mode = "none"
    /\ pc = [c \in Cores |-> "idle"]
    /\ region = NoRegion
    /\ use_linear_alias = FALSE
    /\ alt = 0
    /\ i = 0
    /\ apc = "off"
    /\ bug = "none"
    /\ log = <<>>
    /\ pre = mem
    /\ calls = 0
    /\ allCalls = 0
    /\ passesDone = 0

-----------------------------------------------------------------------------
(* Patch Applier: __apply_alternatives, one step per loop iteration        *)

\* The applier runs on core 0 inside stop_machine, or on the single caller
\* of apply_alternatives().
ApplierRunning == mode = "region" \/ (mode = "all" /\ pc[0] = "apply")

\* Variant of Abort: the fatal condition is recorded but the designated core
\* carries on as if __apply_alternatives had returned.
Abort_FallsThrough(reason) ==
    /\ bug' = reason
    /\ apc' = "off"
    /\ pc' = IF mode = "all" THEN [pc EXCEPT ![0] = "publish"] ELSE pc

\* BUG()/BUG_ON(): the executing context stops for good.
Abort(reason) ==
    /\ bug' = reason
    /\ apc' = "bug"
    /\ pc' = IF mode = "all" THEN [pc EXCEPT ![0] = "bug"] ELSE pc

nr_inst_of(a) == EntryAt(a).alt_len \div INSN_SIZE

\* Variant of SiteSkipped: the capability test is lost, every site is applied.
SiteSkipped_Never(e) == FALSE

\* if (!cpus_have_cap(alt->cpufeature)) continue;
SiteSkipped(e) == ~cpus_have_cap(e.cpufeature)

\* Variant of LenMismatch: the BUG_ON on the lengths is lost.
LenMismatch_Off(e) == FALSE

\* BUG_ON(alt->alt_len != alt->orig_len)
LenMismatch(e) == e.alt_len # e.orig_len

\* updptr = use_linear_alias ? lm_alias(origptr) : origptr
updptr_of(origptr, ula) == IF ula THEN lm_alias(origptr) ELSE origptr

\* Loop head with alt < region->end: capability test and BUG_ON on lengths.
ApplySite ==
    /\ ApplierRunning /\ apc = "loop"
    /\ alt < region.end
    /\ LET e == EntryAt(alt) IN
       IF SiteSkipped(e)
       THEN /\ alt' = alt + ALT_INSTR_SIZE
            /\ UNCHANGED <<apc, i, bug, pc>>
       ELSE IF LenMismatch(e)
            THEN /\ Abort("len")
                 /\ UNCHANGED <<alt, i>>
            ELSE /\ i' = 0
                 /\ apc' = IF 0 < nr_inst_of(alt) THEN "insn" ELSE "flush"
                 /\ UNCHANGED <<alt, bug, pc>>
    /\ UNCHANGED <<alt_instructions, caps, mem, patched, mode, region,
                   use_linear_alias, log, pre, calls, allCalls, passesDone>>

\* Variant of ApplyInsn: the instruction is relocated for the address it is
\* stored through, get_alt_insn(alt, updptr + i, replptr + i).
ApplyInsn_RelocForUpdptr ==
    /\ ApplierRunning /\ apc = "insn"
    /\ LET origptr == ALT_ORIG_PTR(alt)
           replptr == ALT_REPL_PTR(alt)
           updptr  == updptr_of(origptr, use_linear_alias)
           r       == get_alt_insn(alt, updptr + i * INSN_SIZE, replptr + i * INSN_SIZE)
           dst     == updptr + i * INSN_SIZE
       IN  IF r.bug # "none"
           THEN /\ Abort(r.bug)
                /\ UNCHANGED <<mem, log, i>>
           ELSE /\ mem' = [mem EXCEPT ![SlotOf(dst)] = r.insn]
                /\ log' = Append(log, [op |-> "write", addr |-> dst, end |-> dst + INSN_SIZE,
                                       insn |-> r.insn, site |-> alt, slot |-> i])
                /\ i' = i + 1
                /\ apc' = IF i + 1 < nr_inst_of(alt) THEN "insn" ELSE "flush"
                /\ UNCHANGED <<bug, pc>>
    /\ UNCHANGED <<alt_instructions, caps, patched, mode, region, use_linear_alias,
                   alt, pre, calls, allCalls, passesDone>>

\* One iteration of the inner loop: get_alt_insn and the store to updptr[i].
ApplyInsn ==
    /\ ApplierRunning /\ apc = "insn"
    /\ LET origptr == ALT_ORIG_PTR(alt)
           replptr == ALT_REPL_PTR(alt)
           updptr  == updptr_of(origptr, use_linear_alias)
           r       == get_alt_insn(alt, origptr + i * INSN_SIZE, replptr + i * INSN_SIZE)
           dst     == updptr + i * INSN_SIZE
       IN  IF r.bug # "none"
           THEN /\ Abort(r.bug)
                /\ UNCHANGED <<mem, log, i>>
           ELSE /\ mem' = [mem EXCEPT ![SlotOf(dst)] = r.insn]
                /\ log' = Append(log, [op |-> "write", addr |-> dst, end |-> dst + INSN_SIZE,
                                       insn |-> r.insn, site |-> alt, slot |-> i])
                /\ i' = i + 1
                /\ apc' = IF i + 1 < nr_inst_of(alt) THEN "insn" ELSE "flush"
                /\ UNCHANGED <<bug, pc>>
    /\ UNCHANGED <<alt_instructions, caps, patched, mode, region, use_linear_alias,
                   alt, pre, calls, allCalls, passesDone>>

\* Variant of ApplyFlush: the walk steps over the entry that follows.
ApplyFlush_SkipNext ==
    /\ ApplierRunning /\ apc = "flush"
    /\ LET origptr == ALT_ORIG_PTR(alt) IN
       log' = Append(log, [op |-> "flush", addr |-> origptr,
                           end |-> origptr + nr_inst_of(alt) * INSN_SIZE,
                           insn |-> Insn("other", 0, 0), site |-> alt, slot |-> 0])
    /\ alt' = alt + 2 * ALT_INSTR_SIZE
    /\ apc' = "loop"
    /\ UNCHANGED <<alt_instructions, caps, mem, patched, mode, pc, region,
                   use_linear_alias, i, bug, pre, calls, allCalls, passesDone>>

\* Variant of ApplyFlush: the flush is issued over the range that was stored
\* to, flush_icache_range(updptr, updptr + nr_inst).
ApplyFlush_Updptr ==
    /\ ApplierRunning /\ apc = "flush"
    /\ LET updptr == updptr_of(ALT_ORIG_PTR(alt), use_linear_alias) IN
       log' = Append(log, [op |-> "flush", addr |-> updptr,
                           end |-> updptr + nr_inst_of(alt) * INSN_SIZE,
                           insn |-> Insn("other", 0, 0), site |-> alt, slot |-> 0])
    /\ alt' = alt + ALT_INSTR_SIZE
    /\ apc' = "loop"
    /\ UNCHANGED <<alt_instructions, caps, mem, patched, mode, pc, region,
                   use_linear_alias, i, bug, pre, calls, allCalls, passesDone>>

\* flush_icache_range(origptr, origptr + nr_inst) and alt++.
ApplyFlush ==
    /\ ApplierRunning /\ apc = "flush"
    /\ LET origptr == ALT_ORIG_PTR(alt) IN
       log' = Append(log, [op |-> "flush", addr |-> origptr,
                           end |-> origptr + nr_inst_of(alt) * INSN_SIZE,
                           insn |-> Insn("other", 0, 0), site |-> alt, slot |-> 0])
    /\ alt' = alt + ALT_INSTR_SIZE
    /\ apc' = "loop"
    /\ UNCHANGED <<alt_instructions, caps, mem, patched, mode, pc, region,
                   use_linear_alias, i, bug, pre, calls, allCalls, passesDone>>

\* Loop exit (alt >= region->end): __apply_alternatives returns to its caller.
ApplyReturn ==
    /\ ApplierRunning /\ apc = "loop"
    /\ ~(alt < region.end)
    /\ apc' = "off"
    /\ region' = NoRegion /\ alt' = 0 /\ i' = 0 /\ use_linear_alias' = FALSE
    /\ IF mode = "all"
       THEN /\ pc' = [pc EXCEPT ![0] = "publish"]
            /\ passesDone' = passesDone + 1
            /\ UNCHANGED mode
       ELSE /\ mode' = "none"
            /\ UNCHANGED <<pc, passesDone>>
    /\ UNCHANGED <<alt_instructions, caps, mem, patched, bug, log, pre, calls, allCalls>>

-----------------------------------------------------------------------------
(* Quiescence Coordinator: __apply_alternatives_multi_stop on every core   *)

\* apply_alternatives_all(): stop_machine starts the callback on all cores.
ApplyAlternativesAll ==
    /\ mode = "none" /\ bug = "none" /\ calls < MaxCalls
    /\ mode' = "all"
    /\ pc' = [c \in Cores |-> "entry"]
    /\ log' = <<>>
    /\ pre' = mem
    /\ calls' = calls + 1
    /\ allCalls' = allCalls + 1
    /\ UNCHANGED <<alt_instructions, caps, mem, patched, region, use_linear_alias,
                   alt, i, apc, bug, passesDone>>

\* Variant of PatchedGuard: the BUG_ON(patched) is lost.
PatchedGuard_Off == FALSE

\* BUG_ON(patched)
PatchedGuard == patched # 0

\* Variant of MultiStopEnter: core 0 stores patched before it calls
\* __apply_alternatives instead of after.
MultiStopEnter_EarlyPublish(c) ==
    /\ mode = "all" /\ pc[c] = "entry"
    /\ IF c # 0
       THEN /\ pc' = [pc EXCEPT ![c] = "spin"]
            /\ UNCHANGED <<region, use_linear_alias, alt, i, apc, bug, patched>>
       ELSE IF patched # 0
            THEN /\ bug' = "patched"
                 /\ pc' = [pc EXCEPT ![0] = "bug"]
                 /\ UNCHANGED <<region, use_linear_alias, alt, i, apc, patched>>
            ELSE /\ region' = [begin |-> __alt_instructions, end |-> __alt_instructions_end]
                 /\ use_linear_alias' = TRUE
                 /\ alt' = __alt_instructions
                 /\ i' = 0
                 /\ apc' = "loop"
                 /\ pc' = [pc EXCEPT ![0] = "apply"]
                 /\ patched' = 1
                 /\ UNCHANGED bug
    /\ UNCHANGED <<alt_instructions, caps, mem, mode, log, pre, calls,
                   allCalls, passesDone>>

\* if (smp_processor_id()) ... else { BUG_ON(patched); __apply_alternatives(&region, true)
MultiStopEnter(c) ==
    /\ mode = "all" /\ pc[c] = "entry"
    /\ IF c # 0
       THEN /\ pc' = [pc EXCEPT ![c] = "spin"]
            /\ UNCHANGED <<region, use_linear_alias, alt, i, apc, bug>>
       ELSE IF PatchedGuard
            THEN /\ bug' = "patched"
                 /\ pc' = [pc EXCEPT ![0] = "bug"]
                 /\ UNCHANGED <<region, use_linear_alias, alt, i, apc>>
            ELSE /\ region' = [begin |-> __alt_instructions, end |-> __alt_instructions_end]
                 /\ use_linear_alias' = TRUE
                 /\ alt' = __alt_instructions
                 /\ i' = 0
                 /\ apc' = "loop"
                 /\ pc' = [pc EXCEPT ![0] = "apply"]
                 /\ UNCHANGED bug
    /\ UNCHANGED <<alt_instructions, caps, mem, patched, mode, log, pre, calls,
                   allCalls, passesDone>>

\* Variant of Spin: the flag is tested once and the core goes on whatever
\* it read, if (!READ_ONCE(patched)) cpu_relax();
Spin_Once(c) ==
    /\ mode = "all" /\ c # 0 /\ pc[c] = "spin"
    /\ pc' = [pc EXCEPT ![c] = "isb"]
    /\ UNCHANGED <<alt_instructions, caps, mem, patched, mode, region, use_linear_alias,
                   alt, i, apc, bug, log, pre, calls, allCalls, passesDone>>

\* Variant of Spin: the loop condition is inverted, while (READ_ONCE(patched)).
Spin_Inverted(c) ==
    /\ mode = "all" /\ c # 0 /\ pc[c] = "spin"
    /\ pc' = IF patched = 0 THEN [pc EXCEPT ![c] = "isb"] ELSE pc
    /\ UNCHANGED <<alt_instructions, caps, mem, patched, mode, region, use_linear_alias,
                   alt, i, apc, bug, log, pre, calls, allCalls, passesDone>>

\* while (!READ_ONCE(patched)) cpu_relax();  -- one read of the flag
Spin(c) ==
    /\ mode = "all" /\ c # 0 /\ pc[c] = "spin"
    /\ pc' = IF patched # 0 THEN [pc EXCEPT ![c] = "isb"] ELSE pc
    /\ UNCHANGED <<alt_instructions, caps, mem, patched, mode, region, use_linear_alias,
                   alt, i, apc, bug, log, pre, calls, allCalls, passesDone>>

\* isb(); return 0;
Isb(c) ==
    /\ mode = "all" /\ c # 0 /\ pc[c] = "isb"
    /\ pc' = [pc EXCEPT ![c] = "done"]
    /\ UNCHANGED <<alt_instructions, caps, mem, patched, mode, region, use_linear_alias,
                   alt, i, apc, bug, log, pre, calls, allCalls, passesDone>>

\* Variant of Publish: the store to patched is lost.
Publish_NoStore ==
    /\ mode = "all" /\ pc[0] = "publish"
    /\ pc' = [pc EXCEPT ![0] = "done"]
    /\ UNCHANGED <<alt_instructions, caps, mem, patched, mode, region, use_linear_alias,
                   alt, i, apc, bug, log, pre, calls, allCalls, passesDone>>

\* WRITE_ONCE(patched, 1); return 0;
Publish ==
    /\ mode = "all" /\ pc[0] = "publish"
    /\ patched' = 1
    /\ pc' = [pc EXCEPT ![0] = "done"]
    /\ UNCHANGED <<alt_instructions, caps, mem, mode, region, use_linear_alias,
                   alt, i, apc, bug, log, pre, calls, allCalls, passesDone>>

\* stop_machine returns once the callback has returned on every core.
StopMachineReturn ==
    /\ mode = "all" /\ \A c \in Cores : pc[c] = "done"
    /\ mode' = "none"
    /\ pc' = [c \in Cores |-> "idle"]
    /\ UNCHANGED <<alt_instructions, caps, mem, patched, region, use_linear_alias,
                   alt, i, apc, bug, log, pre, calls, allCalls, passesDone>>

\* Variant of ApplyAlternatives: __apply_alternatives(&region, true).
ApplyAlternatives_Alias(start, length) ==
    /\ mode = "none" /\ bug = "none" /\ calls < MaxCalls
    /\ mode' = "region"
    /\ region' = [begin |-> start, end |-> start + length]
    /\ use_linear_alias' = TRUE
    /\ alt' = start
    /\ i' = 0
    /\ apc' = "loop"
    /\ log' = <<>>
    /\ pre' = mem
    /\ calls' = calls + 1
    /\ UNCHANGED <<alt_instructions, caps, mem, patched, pc, bug, allCalls, passesDone>>

\* apply_alternatives(start, length) on a single core.
ApplyAlternatives(start, length) ==
    /\ mode = "none" /\ bug = "none" /\ calls < MaxCalls
    /\ mode' = "region"
    /\ region' = [begin |-> start, end |-> start + length]
    /\ use_linear_alias' = FALSE
    /\ alt' = start
    /\ i' = 0
    /\ apc' = "loop"
    /\ log' = <<>>
    /\ pre' = mem
    /\ calls' = calls + 1
    /\ UNCHANGED <<alt_instructions, caps, mem, patched, pc, bug, allCalls, passesDone>>

\* The (start, length) pairs a caller passes: runs of whole table entries.
RegionChoices ==
    { <<EntryAddr(b), n * ALT_INSTR_SIZE>> :
        b \in 1 .. Len(alt_instructions), n \in 1 .. Len(alt_instructions) }

-----------------------------------------------------------------------------

\* Everything core c can do.
CoreStep(c) ==
    \/ MultiStopEnter(c)
    \/ Spin(c)
    \/ Isb(c)
    \/ (c = 0 /\ mode = "all" /\ (ApplySite \/ ApplyInsn \/ ApplyFlush \/ ApplyReturn))
    \/ (c = 0 /\ Publish)

Next ==
    \/ ApplyAlternativesAll
    \/ \E rc \in RegionChoices :
         /\ rc[1] + rc[2] <= __alt_instructions_end
         /\ ApplyAlternatives(rc[1], rc[2])
    \/ ApplySite
    \/ ApplyInsn
    \/ ApplyFlush
    \/ ApplyReturn
    \/ \E c \in Cores : MultiStopEnter(c)
    \/ \E c \in Cores : Spin(c)
    \/ \E c \in Cores : Isb(c)
    \/ Publish
    \/ StopMachineReturn

Spec == Init /\ [][Next]_vars

\* Every core inside the stop_machine callback keeps executing: each core is
\* a processor of its own, so a step it can take is eventually taken.
\* The images explored under fairness: the first replacement slot holds a
\* plain instruction, a branch to kernel text or a branch to nowhere.
FairInit ==
    /\ Init
    /\ \A a \in Slots :
         \/ mem[a].kind = "other"
         \/ /\ mem[a].kind = "b"
            /\ a = ALT_REPL_PTR(EntryAddr(1))
            /\ a + aarch64_get_branch_offset(mem[a]) \in {4112, 8224}

FairSpec == FairInit /\ [][Next]_vars /\ \A c \in Cores : WF_vars(CoreStep(c))

-----------------------------------------------------------------------------
(* Vocabulary of the properties *)

SiteAddrs == { EntryAddr(k) : k \in 1 .. Len(alt_instructions) }

\* required_capability of the site at a is in the capability set
Applicable(a) == EntryAt(a).cpufeature \in caps

\* The slots of original_range of the site at a.
OrigRange(a) ==
    { x \in Slots : x >= ALT_ORIG_PTR(a) /\ x < ALT_ORIG_PTR(a) + EntryAt(a).orig_len }

Writes  == { k \in 1 .. Len(log) : log[k].op = "write" }
Flushes == { k \in 1 .. Len(log) : log[k].op = "flush" }

\* Every applicable site has all its slots written and its flush issued.
AllSitesFlushed ==
    \A a \in SiteAddrs : Applicable(a) =>
        /\ \E k \in Flushes : log[k].site = a
        /\ \A j \in 0 .. (nr_inst_of(a) - 1) :
             \E k \in Writes : log[k].site = a /\ log[k].slot = j

\* The designated core's whole-image pass of this invocation has returned.
PassComplete == mode = "all" /\ pc[0] \in {"publish", "done"}

-----------------------------------------------------------------------------
\* C1: in every interleaving of apply_all, no core other than core 0 is past
\* its spin loop on patched (at its isb or returned) unless the designated
\* core has finished a whole-image pass, i.e. has written every instruction
\* and issued the flush of every applicable site of the table.
C1_NoEarlyRelease ==
    \A c \in Cores \ {0} :
        (mode = "all" /\ pc[c] \in {"isb", "done"}) =>
            /\ passesDone >= 1
            /\ (allCalls = 1 => AllSitesFlushed)

\* A first pass that patched something has released a waiting core.
C1_Witness ==
    \E c \in Cores \ {0} :
        mode = "all" /\ pc[c] = "done" /\ allCalls = 1 /\ Writes # {}

\* C2: a second apply_all, after a first one has completed, can only end in
\* the abort on the patched guard: core 0 is either still at the entry of the
\* callback or stopped by BUG_ON(patched), and the invocation has stored and
\* flushed nothing.
C2_SecondPassAborts ==
    allCalls >= 2 =>
        /\ mode = "all"
        /\ pc[0] \in {"entry", "bug"}
        /\ (pc[0] = "bug" => bug = "patched")
        /\ log = <<>>
        /\ mem = pre

\* The second invocation has hit the guard.
C2_Witness == allCalls = 2 /\ pc[0] = "bug" /\ bug = "patched" /\ passesDone = 1

\* C3 as stated: after apply_all each slot of the original range of a site
\* whose capability is absent holds what it held before.
C3_AbsentSiteUntouched ==
    PassComplete =>
        \A a \in SiteAddrs : ~Applicable(a) =>
            \A x \in OrigRange(a) : mem[x] = pre[x]

\* C3 amended: after apply_all each slot of the original range of a site
\* whose capability is absent, and that lies in the original range of no
\* applicable site, holds what it held before.
C3_AbsentSiteUntouchedUnlessShared ==
    PassComplete =>
        \A a \in SiteAddrs : ~Applicable(a) =>
            \A x \in OrigRange(a) :
                (~ \E b \in SiteAddrs : Applicable(b) /\ x \in OrigRange(b))
                    => mem[x] = pre[x]

\* A pass that patched one site and skipped another whose range it left alone.
C3_Witness ==
    /\ PassComplete
    /\ Writes # {}
    /\ \E a \in SiteAddrs :
         /\ ~Applicable(a)
         /\ \E x \in OrigRange(a) :
              ~ \E b \in SiteAddrs : Applicable(b) /\ x \in OrigRange(b)

-----------------------------------------------------------------------------
(* Vocabulary of the relocation properties: a logged store w came from the *)
(* replacement instruction at SrcAddr(w) and is meant to run at            *)
(* FinalAddr(w).                                                           *)

SrcAddr(w)   == ALT_REPL_PTR(w.site) + w.slot * INSN_SIZE
FinalAddr(w) == ALT_ORIG_PTR(w.site) + w.slot * INSN_SIZE
SrcInsn(w)   == pre[SrcAddr(w)]

\* The address the instruction word refers to when it sits at address at.
TargetOf(insn, at) ==
    IF insn.kind = "b" THEN at + aarch64_get_branch_offset(insn)
    ELSE IF insn.kind = "adrp" THEN align_down(at, SZ_4K) + aarch64_insn_adrp_get_offset(insn)
    ELSE at + aarch64_insn_adr_get_offset(insn)

External(t) == kernel_text_address(t) \/ core_kernel_data(t)

\* t in [replacement_range.address, replacement_range.address + length)
InBlock(a, t) ==
    t >= ALT_REPL_PTR(a) /\ t < ALT_REPL_PTR(a) + EntryAt(a).alt_len

\* t in [replacement_range.address, replacement_range.address + length]
InBlockOrEnd(a, t) ==
    t >= ALT_REPL_PTR(a) /\ t <= ALT_REPL_PTR(a) + EntryAt(a).alt_len

\* The replacement instruction the applier stopped at when it aborted.
StoppedAt == pre[ALT_REPL_PTR(alt) + i * INSN_SIZE]
StoppedTarget == TargetOf(StoppedAt, ALT_REPL_PTR(alt) + i * INSN_SIZE)

-----------------------------------------------------------------------------
\* C4: for every relative branch written at slot i of an applied site whose
\* target (replacement address of the slot plus the embedded offset) is in
\* kernel text or core kernel data, the offset written plus the final address
\* equals the offset assembled plus the replacement address.
C4_BranchTargetPreserved ==
    \A k \in Writes :
        LET w == log[k] IN
        (SrcInsn(w).kind = "b" /\ External(TargetOf(SrcInsn(w), SrcAddr(w)))) =>
            aarch64_get_branch_offset(w.insn) + FinalAddr(w)
                = aarch64_get_branch_offset(SrcInsn(w)) + SrcAddr(w)

\* A branch to an external target has been written with a changed offset.
C4_Witness ==
    \E k \in Writes :
        LET w == log[k] IN
        /\ SrcInsn(w).kind = "b"
        /\ External(TargetOf(SrcInsn(w), SrcAddr(w)))
        /\ w.insn # SrcInsn(w)
        /\ FinalAddr(w) # SrcAddr(w)

\* C5 as stated: a relative branch of an applied site whose target lies in
\* the replacement block's own half-open span is written bit-identical to
\* the source instruction, wherever the block is placed.
C5_InternalBranchCopied ==
    \A k \in Writes :
        LET w == log[k] IN
        (SrcInsn(w).kind = "b" /\ InBlock(w.site, TargetOf(SrcInsn(w), SrcAddr(w))))
            => w.insn = SrcInsn(w)

\* C6 as stated: an adr of an applied site whose target lies outside the
\* half-open span of the replacement block is never written to the
\* destination (the applier aborts at it).
C6_AdrOutsideHalfOpenAborts ==
    \A k \in Writes :
        LET w == log[k] IN
        SrcInsn(w).kind = "adr" => InBlock(w.site, TargetOf(SrcInsn(w), SrcAddr(w)))

\* C6 amended: an adr of an applied site whose target is below the start of
\* the replacement block or above its end address (start + length) is never
\* written to the destination (the applier aborts at it); a target equal to
\* the end address counts as inside.
C6_AdrOutsideAborts ==
    \A k \in Writes :
        LET w == log[k] IN
        SrcInsn(w).kind = "adr" => InBlockOrEnd(w.site, TargetOf(SrcInsn(w), SrcAddr(w)))

\* The applier has aborted at an adr whose target is outside the block.
C6_Witness ==
    /\ apc = "bug" /\ bug \in {"adr", "fixup"}
    /\ StoppedAt.kind = "adr"
    /\ ~InBlockOrEnd(alt, StoppedTarget)

\* C7 as stated: an apply that walks its whole region without aborting has
\* met no site with alt_len # orig_len in it.
C7_AnyMismatchAborts ==
    (ApplierRunning /\ apc = "loop" /\ ~(alt < region.end)) =>
        \A a \in SiteAddrs :
            (a >= region.begin /\ a < region.end) =>
                EntryAt(a).alt_len = EntryAt(a).orig_len

\* C7 amended: an apply that walks its whole region without aborting has met
\* no applicable site (capability present) with alt_len # orig_len in it; a
\* mismatched site whose capability is absent is skipped without abort.
C7_ApplicableMismatchAborts ==
    (ApplierRunning /\ apc = "loop" /\ ~(alt < region.end)) =>
        \A a \in SiteAddrs :
            (a >= region.begin /\ a < region.end /\ Applicable(a)) =>
                EntryAt(a).alt_len = EntryAt(a).orig_len

\* The applier has aborted on the length check of an applicable site.
C7_Witness ==
    /\ apc = "bug" /\ bug = "len"
    /\ Applicable(alt)
    /\ EntryAt(alt).alt_len # EntryAt(alt).orig_len

\* C9: no step of apply_region changes patched or stops on the patched
\* guard, and every store it makes goes to the original address of the slot,
\* whether or not apply_all has run before.
C9_RegionIgnoresPatched ==
    [][ (mode = "region" \/ mode' = "region") =>
            /\ patched' = patched
            /\ bug' # "patched"
            /\ \A k \in 1 .. Len(log') :
                 log'[k].op = "write" => log'[k].addr = FinalAddr(log'[k]) ]_vars

\* apply_region has stored into the image after apply_all set patched.
C9_Witness ==
    mode = "region" /\ patched = 1 /\ allCalls = 1 /\ Writes # {}

\* C10 as stated: a relative branch or adrp of an applied site whose target
\* is neither external nor in the half-open span of the replacement block is
\* never written to the destination (the applier aborts at it).
C10_UndecidableHalfOpenAborts ==
    \A k \in Writes :
        LET w == log[k]
            t == TargetOf(SrcInsn(w), SrcAddr(w))
        IN  SrcInsn(w).kind \in {"b", "adrp"} => (External(t) \/ InBlock(w.site, t))

\* C10 amended: a relative branch or adrp of an applied site whose target is
\* neither external nor within [start, start + length] of the replacement
\* block (end address included) is never written to the destination (the
\* applier aborts at it).
C10_UndecidableAborts ==
    \A k \in Writes :
        LET w == log[k]
            t == TargetOf(SrcInsn(w), SrcAddr(w))
        IN  SrcInsn(w).kind \in {"b", "adrp"} => (External(t) \/ InBlockOrEnd(w.site, t))

\* The applier has aborted at a branch or adrp with an undecidable target.
C10_Witness ==
    /\ apc = "bug" /\ bug = "fixup"
    /\ StoppedAt.kind \in {"b", "adrp"}
    /\ ~External(StoppedTarget)
    /\ ~InBlockOrEnd(alt, StoppedTarget)

\* C8: with every core running (weak fairness of each core's steps), a core
\* other than core 0 that is in its spin loop eventually returns from the
\* callback, unless a fatal condition has stopped the designated core.
C8_SpinnersReleased ==
    \A c \in Cores \ {0} :
        (mode = "all" /\ pc[c] = "spin") ~> (pc[c] = "done" \/ bug # "none")

\* A core that had to wait for a pass that patched something has returned.
C8_Witness ==
    \E c \in Cores \ {0} :
        /\ mode = "all" /\ pc[c] = "done" /\ bug = "none"
        /\ allCalls = 1 /\ passesDone = 1 /\ Flushes # {}

-----------------------------------------------------------------------------
\* C11: for every adrp written at slot i of an applied site whose target
\* T = align_down(replacement address of the slot, 4096) + embedded offset is
\* in kernel text or core kernel data, the offset written equals
\* T - align_down(original address of the slot, 4096).
C11_AdrpOffsetRecomputed ==
    \A k \in Writes :
        LET w == log[k]
            t == align_down(SrcAddr(w), SZ_4K) + aarch64_insn_adrp_get_offset(SrcInsn(w))
        IN  (SrcInsn(w).kind = "adrp" /\ External(t)) =>
                /\ w.insn.kind = "adrp"
                /\ aarch64_insn_adrp_get_offset(w.insn) = t - align_down(FinalAddr(w), SZ_4K)
                /\ align_down(FinalAddr(w), SZ_4K) + aarch64_insn_adrp_get_offset(w.insn)
                     = align_down(SrcAddr(w), SZ_4K) + aarch64_insn_adrp_get_offset(SrcInsn(w))

\* An adrp to an external page has been moved to another page and rewritten.
C11_Witness ==
    \E k \in Writes :
        LET w == log[k]
            t == align_down(SrcAddr(w), SZ_4K) + aarch64_insn_adrp_get_offset(SrcInsn(w))
        IN  /\ SrcInsn(w).kind = "adrp" /\ External(t)
            /\ align_down(FinalAddr(w), SZ_4K) # align_down(SrcAddr(w), SZ_4K)
            /\ w.insn # SrcInsn(w)

\* The log entries of the site at a, in order.
EntriesOf(a) == { k \in 1 .. Len(log) : log[k].site = a }

\* C12: an applied site gets at most one flush, exactly one once its slots
\* are all written and the walk has moved on; the flush covers exactly
\* [original address, original address + original length), also when the
\* stores went through the alias; it directly follows the store of the last
\* slot of its site, and every store to a later site comes after it.
C12_OneFlushPerSite ==
    /\ \A k \in Flushes :
         LET f == log[k]
             n == nr_inst_of(f.site)
         IN  /\ f.addr = ALT_ORIG_PTR(f.site)
             /\ f.end = ALT_ORIG_PTR(f.site) + EntryAt(f.site).orig_len
             /\ k > n
             /\ \A j \in 0 .. (n - 1) :
                  /\ log[k - n + j].op = "write"
                  /\ log[k - n + j].site = f.site
                  /\ log[k - n + j].slot = j
             /\ \A l \in Flushes : log[l].site = f.site => l = k
    /\ \A k \in Writes :
         LET w == log[k] IN
         /\ (w.slot = 0 /\ k > 1) => log[k - 1].op = "flush" /\ log[k - 1].site # w.site
         /\ (w.slot = nr_inst_of(w.site) - 1 /\ k < Len(log)) =>
                log[k + 1].op = "flush" /\ log[k + 1].site = w.site
         /\ (w.slot = nr_inst_of(w.site) - 1 /\ k = Len(log)) =>
                apc = "flush" /\ alt = w.site
    /\ (apc = "loop" \/ apc = "off") => (log # <<>> => log[Len(log)].op = "flush")

\* Two sites were patched through the alias and each flushed at its
\* original address.
C12_Witness ==
    /\ Cardinality(Flushes) = 2
    /\ \E k \in Writes : log[k].addr # FinalAddr(log[k])
    /\ \E k \in Flushes : nr_inst_of(log[k].site) = 2

\* C13: nothing is stored or flushed for a site whose lengths differ; when
\* the applier stops on the length check of an applicable site, it has made
\* no store and no flush for that site.
C13_MismatchAbortsBeforeWrite ==
    /\ \A k \in 1 .. Len(log) :
         EntryAt(log[k].site).alt_len = EntryAt(log[k].site).orig_len
    /\ (apc = "bug" /\ bug = "len") =>
         /\ Applicable(alt)
         /\ EntriesOf(alt) = {}

\* The walk patched and flushed one site, then stopped on the length check
\* of the next one.
C13_Witness ==
    /\ apc = "bug" /\ bug = "len"
    /\ Flushes # {}
    /\ EntriesOf(alt) = {}

-----------------------------------------------------------------------------
\* C14: patched starts 0; every change of it is a change from 0 to 1 made by
\* core 0 at the end of the callback, after its whole-image pass has written
\* and flushed every applicable site; the store is executed only while
\* patched is 0, so at most once; once 1 it stays 1.
C14_PatchedWrittenOnce ==
    /\ patched = 0
    /\ [][ /\ (patched' # patched) =>
                /\ patched = 0 /\ patched' = 1
                /\ mode = "all" /\ pc[0] = "publish" /\ pc'[0] = "done"
                /\ passesDone >= 1
                /\ AllSitesFlushed
           /\ (patched = 1) => (patched' = 1)
           /\ (pc[0] = "publish" /\ pc'[0] # "publish") =>
                (patched = 0 /\ patched' = 1) ]_vars

\* Core 0 has set patched after a pass that patched something.
C14_Witness == patched = 1 /\ mode = "all" /\ pc[0] = "done" /\ Flushes # {}

\* C15 as stated: whenever a store or a flush is issued during apply_all, it
\* is core 0 that issues it and every other core is inside its spin loop.
C15_OthersSpinDuringWrite ==
    [][ (mode = "all" /\ log' # log) =>
            /\ pc[0] = "apply"
            /\ \A c \in Cores \ {0} : pc[c] = "spin" ]_vars

\* C15 amended: whenever a store or a flush is issued during apply_all, it
\* is core 0 that issues it, and every other core is at the entry of the
\* callback or inside its spin loop: none has left the loop, and none moves
\* in that step.
C15_OthersParkedDuringWrite ==
    [][ (mode = "all" /\ log' # log) =>
            /\ pc[0] = "apply" /\ pc'[0] = "apply"
            /\ \A c \in Cores \ {0} : pc[c] \in {"entry", "spin"} /\ pc'[c] = pc[c] ]_vars

\* Core 0 is in the middle of a site while one core spins and another has
\* not yet entered the loop.
C15_Witness ==
    /\ mode = "all" /\ pc[0] = "apply" /\ apc = "insn" /\ Writes # {}
    /\ \E c \in Cores \ {0} : pc[c] = "spin"
    /\ \E c \in Cores \ {0} : pc[c] = "entry"

-----------------------------------------------------------------------------
\* The applicable sites whose original range holds slot x, and the one of
\* them that comes last in the table.
Covering(x) == { a \in SiteAddrs : Applicable(a) /\ x \in OrigRange(a) }
LastCovering(x) == CHOOSE a \in Covering(x) : \A b \in Covering(x) : b <= a

\* The direct pass is the second invocation and follows the one whole-image
\* pass, so pre holds the words the aliased pass left in the image.
DirectAfterAliased == mode = "region" /\ allCalls = 1 /\ calls = 2 /\ passesDone = 1

\* C16: the stores of the whole-image pass go to the alias of the original
\* address of each slot and those of apply_region to the original address
\* itself; in both the stored word is the replacement instruction relocated
\* for the original address of the slot, and the word a direct pass stores
\* into a slot is the word the aliased pass stored for the same site and slot.
C16_SameEncodingBothModes ==
    /\ mode = "all" => \A k \in Writes : log[k].addr = lm_alias(FinalAddr(log[k]))
    /\ mode = "region" => \A k \in Writes : log[k].addr = FinalAddr(log[k])
    /\ \A k \in Writes :
         log[k].insn = get_alt_insn(log[k].site, FinalAddr(log[k]), SrcAddr(log[k])).insn
    /\ DirectAfterAliased =>
         \A k \in Writes :
             LET w == log[k] IN
             w.site = LastCovering(FinalAddr(w)) => w.insn = pre[FinalAddr(w)]

\* A direct pass has stored a relocated instruction that the aliased pass
\* had stored before.
C16_Witness ==
    /\ DirectAfterAliased
    /\ \E k \in Writes :
         LET w == log[k] IN
         /\ w.site = LastCovering(FinalAddr(w))
         /\ SrcInsn(w).kind \in {"b", "adrp"}
         /\ w.insn # SrcInsn(w)

-----------------------------------------------------------------------------
\* What an invocation has left alone so far: every slot whose word differs
\* from the word it held when the invocation began lies in the original
\* range of an applicable site (so no replacement block and no other image
\* word has changed), and every store went to a slot of the original range
\* of the applicable site it was made for.
FrameKept ==
    /\ \A x \in Slots : mem[x] # pre[x] => Covering(x) # {}
    /\ \A x \in ReplSlots : mem[x] = pre[x]
    /\ \A k \in Writes :
         /\ Applicable(log[k].site)
         /\ SlotOf(log[k].addr) \in OrigRange(log[k].site)

\* C17: during and after apply_all and apply_region the only words that
\* change are those of the original ranges of applicable sites; the
\* replacement blocks and the rest of the image keep their words, and no
\* step changes the table of sites or the capability set.
C17_OnlyApplicableRangesWritten ==
    /\ []FrameKept
    /\ [][alt_instructions' = alt_instructions /\ caps' = caps]_vars

\* An invocation has returned after patching a site, and has left a slot of
\* the image outside every applicable range and the range of a skipped site.
C17_Witness ==
    /\ mode = "none" /\ bug = "none" /\ calls >= 1
    /\ \E x \in Slots : mem[x] # pre[x]
    /\ \E x \in OrigSlots : Covering(x) = {}
    /\ \E a \in SiteAddrs : ~Applicable(a)

-----------------------------------------------------------------------------
\* The fatal conditions of __apply_alternatives.
ApplierBugs == {"len", "fixup", "adr", "literal"}

\* C18: once the designated core has hit a fatal condition no step writes
\* patched; when the applier of a whole-image pass has hit one, core 0 is
\* stopped there, and in the first apply_all patched is still 0 and every
\* other core is before or in its spin loop, whatever earlier sites have
\* been rewritten and flushed.
C18_FatalNeverPublishes ==
    /\ [](  (mode = "all" /\ bug \in ApplierBugs) =>
              /\ pc[0] = "bug"
              /\ allCalls = 1 =>
                   /\ patched = 0
                   /\ \A c \in Cores \ {0} : pc[c] \in {"entry", "spin"} )
    /\ []( bug = "patched" => pc[0] = "bug" /\ patched = 1 )
    /\ [][bug # "none" => patched' = patched]_vars

\* The first apply_all has hit a fatal condition at a site after it rewrote
\* and flushed an earlier one, and the other cores are spinning.
C18_Witness ==
    /\ mode = "all" /\ allCalls = 1 /\ bug \in ApplierBugs
    /\ \E k \in Flushes : log[k].site < alt
    /\ \E x \in Slots : mem[x] # pre[x]
    /\ \A c \in Cores \ {0} : pc[c] = "spin"

-----------------------------------------------------------------------------
\* The site at a belongs to the region being walked.
InRegion(a) == region.begin <= a /\ a < region.end

\* The walk has reached the end of its region and is about to return.
WalkDone == ApplierRunning /\ apc = "loop" /\ ~(alt < region.end)

\* The applicable sites of the region whose original range holds slot x.
CoveringInRegion(x) == { a \in Covering(x) : InRegion(a) }

\* The stores and flushes of an invocation appear in table order, one flush
\* per site and one store per slot of a site, and none for a site the walk
\* has not reached or that lies outside the region.
LogInTableOrder ==
    /\ \A k, l \in 1 .. Len(log) : k < l => log[k].site <= log[l].site
    /\ \A k, l \in Flushes : log[k].site = log[l].site => k = l
    /\ \A k, l \in Writes :
         (log[k].site = log[l].site /\ log[k].slot = log[l].slot) => k = l
    /\ region # NoRegion =>
         \A k \in 1 .. Len(log) : InRegion(log[k].site) /\ log[k].site <= alt

\* When the walk is done each slot covered by applicable sites of the region
\* holds the word stored for the last of them in the table.
LaterSiteWins ==
    WalkDone =>
        \A x \in Slots :
            CoveringInRegion(x) # {} =>
                LET a == CHOOSE a \in CoveringInRegion(x) :
                             \A b \in CoveringInRegion(x) : b <= a
                IN  \E k \in Writes :
                        /\ log[k].site = a
                        /\ FinalAddr(log[k]) = x
                        /\ mem[x] = log[k].insn

\* C19: within one invocation the walk goes through its region entry by
\* entry in table order and handles each site once, and when two applicable
\* sites of the region share original slots, those slots end up with the
\* words produced from the later site.
C19_TableOrderLaterWins ==
    /\ []LogInTableOrder
    /\ []LaterSiteWins
    /\ [][(region # NoRegion /\ region' = region) =>
             alt' \in {alt, alt + ALT_INSTR_SIZE}]_vars

\* A walk is done in which two applicable sites stored different words to
\* the same slot.
C19_Witness ==
    /\ WalkDone
    /\ \E k, l \in Writes :
         /\ log[k].site < log[l].site
         /\ FinalAddr(log[k]) = FinalAddr(log[l])
         /\ log[k].insn # log[l].insn
         /\ mem[FinalAddr(log[l])] = log[l].insn

=============================================================================
